---- MODULE Spec2Model ----
(***************************************************************************)
(* JaPa4Py: the builder that turns a javalang parse tree into a networkx   *)
(* DiGraph (src/src/_ast_builder.py, duplicated as static methods in       *)
(* src/src/ast.py), the resolver pass over the node attributes, and the    *)
(* AST query operations of src/src/ast.py (traverse, get_subtrees,         *)
(* get_subtree, create_fake_node, get_proxy_nodes), and the computed       *)
(* fields registry of src/src/_computed_fields_registry.py.                *)
(*                                                                         *)
(* The javalang tree is given in preorder: jl[i] is the i-th native value  *)
(* met by a walk over Node.children, with its nesting depth.  A native     *)
(* object is identified by its position i (Python object identity).        *)
(* javalang's Node.children is the list of the node's attribute values, so *)
(* the k-th attribute of a node is the native value of its k-th child.     *)
(***************************************************************************)
EXTENDS Integers, Sequences, FiniteSets, TLC

VARIABLES
  jl,       \* the javalang tree handed to the builder (never changes)
  stray,    \* the native Nodes that carry a catalog attribute holding a javalang
            \* Node which Node.children does not enumerate (never changes)
  pc,       \* "build" | "resolve" | "done" | "error"
  err,      \* the exception that ended the build, "" when none
  pos,      \* next native value the recursion of the builder looks at
  stack,    \* the open calls of the builder's recursion, outermost first
  gnodes,   \* DiGraph nodes: node index -> attributes
  adj,      \* DiGraph successors: node index -> children, in add_edge order
  jmap,     \* _javalang_node_to_index_map: native Node -> node index
  root,     \* root_id returned by _add_subtree_from_javalang_node, 0 before
  rpos,     \* number of graph nodes the resolver has finished
  asts,     \* the AST instances the caller holds: the built one, then the subtree
            \* it extracted last; each is a node set of the DiGraph and a root
  fakes,    \* _fake_nodes_qty_per_graph: AST instance's tree -> counter
  issued,   \* history: the fake node ids each AST instance has returned, in call order
  last,     \* the last query call and what it returned
  registry, \* _ComputedFieldsRegistry._registry: node type -> (name -> computator)
  rlast     \* the last call on the registry: its arguments, the registry before
            \* it and how it ended

queryVars == <<asts, fakes, issued, last>>
graphVars == <<jl, stray, pc, err, pos, stack, gnodes, adj, jmap, root, rpos>>
registryVars == <<registry, rlast>>
vars == <<jl, stray, pc, err, pos, stack, gnodes, adj, jmap, root, rpos, asts, fakes, issued, last,
          registry, rlast>>

(***************************************************************************)
(* Bounds of the model.                                                    *)
(***************************************************************************)
\* native values in a tree given to the builder (all kinds of values)
MaxItems == 4
\* native Nodes in a tree whose AST is then queried
MaxNodes == 4
\* create_fake_node calls on one AST instance
MaxFakes == 2

\* AstBuilder._UNKNOWN_NODE_TYPE, the index of a value that produced no node
UNKNOWN_NODE_TYPE == -1

(***************************************************************************)
(* Native values.                                                          *)
(***************************************************************************)
Item(k, d, t) == [kind |-> k, depth |-> d, ntype |-> t]

\* javalang Node classes, by the ASTNodeType javalang_to_ast_node_type gives
BuildNodeTypes == {"METHOD_DECLARATION", "LAMBDA_EXPRESSION"}
QueryNodeTypes == {"METHOD_DECLARATION", "CLASS_DECLARATION"}

\* "other" is any value that is no Node, list, set, str or None (a tuple, a float)
LeafKinds == {"str", "None", "int", "other"}

NodeItems(types, d) == {Item("Node", d, t) : t \in types}
LeafItems(d) == {Item(k, d, "-") : k \in LeafKinds}

\* what a container of kind k can hold at depth d: a Python set holds
\* hashable values only, so no list and no set
ChildItems(types, leaves, k, d) ==
  CASE k \in {"Node", "list"} ->
         NodeItems(types, d)
           \cup (IF leaves THEN LeafItems(d) \cup {Item("list", d, "-"), Item("set", d, "-")}
                 ELSE {})
    [] k = "set" -> LeafItems(d)
    [] OTHER -> {}

\* the container that holds a value appended at depth d to the preorder s
OpenAt(s, d) ==
  CHOOSE i \in 1..Len(s) :
    s[i].depth = d - 1 /\ \A j \in (i + 1)..Len(s) : s[j].depth >= d

\* e can follow the preorder s: it is held by a container that is still open
Extends(types, leaves, s, e) ==
  /\ e.depth <= s[Len(s)].depth + 1
  /\ e \in ChildItems(types, leaves, s[OpenAt(s, e.depth)].kind, e.depth)

ItemsUpTo(types, d) ==
  UNION {NodeItems(types, k) \cup LeafItems(k) \cup {Item("list", k, "-"), Item("set", k, "-")} :
           k \in 1..d}

\* parse() returns a CompilationUnit: the root is always a Node
RECURSIVE TreesOfLen(_, _, _)
TreesOfLen(types, leaves, n) ==
  IF n = 1 THEN {<<e>> : e \in NodeItems(types, 0)}
  ELSE {Append(p[1], p[2]) :
          p \in {q \in TreesOfLen(types, leaves, n - 1) \X ItemsUpTo(types, n - 1) :
                   Extends(types, leaves, q[1], q[2])}}

(***************************************************************************)
(* Reading the native tree.                                                *)
(***************************************************************************)
\* the native container of value i (0 for the root)
ParentItem(i) ==
  IF jl[i].depth = 0 THEN 0
  ELSE CHOOSE p \in 1..(i - 1) :
         jl[p].depth = jl[i].depth - 1 /\ \A j \in (p + 1)..i : jl[j].depth >= jl[i].depth

\* the values container i holds, in order
RECURSIVE SeqOfSet(_)
SeqOfSet(S) ==
  IF S = {} THEN <<>>
  ELSE LET m == CHOOSE x \in S : \A y \in S : x <= y
       IN <<m>> \o SeqOfSet(S \ {m})

ItemsOf(i) == SeqOfSet({c \in (i + 1)..Len(jl) : ParentItem(c) = i})

(***************************************************************************)
(* Attribute values.  A raw javalang Node is JNode(i); ASTNodeReference(n) *)
(* is Ref(n); a Python list is List(<<...>>); every other value is         *)
(* Atom(kind).                                                             *)
(***************************************************************************)
JNode(i) == [tag |-> "jnode", ref |-> i, items |-> <<>>]
Ref(n) == [tag |-> "ref", ref |-> n, items |-> <<>>]
List(xs) == [tag |-> "list", ref |-> 0, items |-> xs]
Atom(k) == [tag |-> k, ref |-> 0, items |-> <<>>]

RECURSIVE NativeValue(_)
NativeValue(i) ==
  CASE jl[i].kind = "Node" -> JNode(i)
    [] jl[i].kind = "list" -> List([k \in 1..Len(ItemsOf(i)) |-> NativeValue(ItemsOf(i)[k])])
    [] OTHER -> Atom(jl[i].kind)

\* getattr(javalang_node, attr_name) for the catalog's attribute names
CatalogAttributes(i) == [k \in 1..Len(ItemsOf(i)) |-> NativeValue(ItemsOf(i)[k])]

\* "body" is the last attribute javalang declares for MethodDeclaration and
\* LambdaExpression
PostProcessAttributes(node_type, attributes) ==
  LET n == Len(attributes) IN
  IF n = 0 THEN attributes
  ELSE IF node_type = "METHOD_DECLARATION" /\ attributes[n].tag = "None"
       THEN [attributes EXCEPT ![n] = List(<<>>)]
  ELSE IF node_type = "LAMBDA_EXPRESSION" /\ attributes[n].tag = "jnode"
       THEN [attributes EXCEPT ![n] = List(<<attributes[n]>>)]
  ELSE attributes

\* a catalog attribute that holds a javalang Node which Node.children does
\* not enumerate: the Node itself, or the Node two lists deep.  Native value
\* 0 is such a Node: the walk of the builder never meets it.
StrayShapes == {"direct", "listed"}

StrayValue(shape) == IF shape = "direct" THEN JNode(0) ELSE List(<<List(<<JNode(0)>>)>>)

StrayAttributes(i) ==
  LET S == {p \in stray : p[1] = i}
  IN IF S = {} THEN <<>> ELSE <<StrayValue((CHOOSE p \in S : TRUE)[2])>>

\* the attributes _add_javalang_standard_node hands to add_node
NodeAttributes(i) ==
  LET strays == StrayAttributes(i)
      declared == PostProcessAttributes(jl[i].ntype, CatalogAttributes(i))
  IN [k \in 1..(Len(strays) + Len(declared)) |->
        IF k <= Len(strays) THEN strays[k] ELSE declared[k - Len(strays)]]

(***************************************************************************)
(* The builder.                                                            *)
(***************************************************************************)
GraphLen == Cardinality(DOMAIN gnodes)

\* mutant: the index is the node count itself
NewNodeIndexFromZero == GraphLen

\* node_index = len(self._graph) + 1
NewNodeIndex == GraphLen + 1

AddNode(n, node_type, attributes) ==
  /\ gnodes' = (n :> [node_type |-> node_type, attrs |-> attributes]) @@ gnodes
  /\ adj' = IF n \in DOMAIN adj THEN adj ELSE (n :> <<>>) @@ adj

\* mutant: the new child is linked before its siblings
WithEdgeFirst(a, u, v) ==
  IF \E k \in 1..Len(a[u]) : a[u][k] = v THEN a ELSE [a EXCEPT ![u] = <<v>> \o @]

\* DiGraph.add_edge(u, v), both nodes being in the graph already
WithEdge(a, u, v) ==
  IF \E k \in 1..Len(a[u]) : a[u][k] = v THEN a ELSE [a EXCEPT ![u] = Append(@, v)]

Top == stack[Len(stack)]
Frame(i, n) == [item |-> i, index |-> n]

\* the builder is about to look at value pos as a child of the open call
AtChild ==
  /\ pc = "build"
  /\ pos <= Len(jl)
  /\ jl[pos].depth = Len(stack)

InChildren == IF stack = <<>> THEN TRUE ELSE jl[Top.item].kind \in {"Node", "list"}
InCollection == IF stack = <<>> THEN FALSE ELSE jl[Top.item].kind = "set"

\* _add_javalang_standard_node, then the identity map entry; the children follow
AddStandardNode ==
  /\ AtChild /\ InChildren
  /\ jl[pos].kind = "Node"
  /\ LET node_index == NewNodeIndex IN
       /\ AddNode(node_index, jl[pos].ntype, NodeAttributes(pos))
       /\ jmap' = (pos :> node_index) @@ jmap
       /\ stack' = Append(stack, Frame(pos, node_index))
  /\ pos' = pos + 1
  /\ UNCHANGED <<jl, stray, registryVars, pc, err, root, rpos, queryVars>>

\* _add_javalang_collection_node up to its loop over the members
AddCollectionNode ==
  /\ AtChild /\ InChildren
  /\ jl[pos].kind = "set"
  /\ LET node_index == NewNodeIndex IN
       /\ AddNode(node_index, "COLLECTION", <<>>)
       /\ stack' = Append(stack, Frame(pos, node_index))
  /\ pos' = pos + 1
  /\ UNCHANGED <<jl, stray, registryVars, pc, err, jmap, root, rpos, queryVars>>

\* _add_javalang_string_node and the edge its caller adds: a str child of a
\* Node, or a str member of a set
AddStringNode ==
  /\ AtChild /\ stack # <<>>
  /\ jl[pos].kind = "str"
  /\ LET node_index == NewNodeIndex IN
       /\ gnodes' = (node_index :> [node_type |-> "STRING", attrs |-> <<>>]) @@ gnodes
       /\ adj' = WithEdge((node_index :> <<>>) @@ adj, Top.index, node_index)
  /\ pos' = pos + 1
  /\ UNCHANGED <<jl, stray, registryVars, pc, err, stack, jmap, root, rpos, queryVars>>

\* _add_javalang_children on a nested list: same parent_index
EnterList ==
  /\ AtChild /\ InChildren /\ stack # <<>>
  /\ jl[pos].kind = "list"
  /\ stack' = Append(stack, Frame(pos, Top.index))
  /\ pos' = pos + 1
  /\ UNCHANGED <<jl, stray, registryVars, pc, err, gnodes, adj, jmap, root, rpos, queryVars>>

\* mutant: the caller forgets the check child_index != _UNKNOWN_NODE_TYPE
DropValueLinked ==
  /\ AtChild /\ InChildren /\ stack # <<>>
  /\ jl[pos].kind \notin {"Node", "set", "str", "list"}
  /\ adj' = [adj EXCEPT ![Top.index] = Append(@, UNKNOWN_NODE_TYPE)]
  /\ pos' = pos + 1
  /\ UNCHANGED <<jl, stray, registryVars, pc, err, stack, gnodes, jmap, root, rpos, queryVars>>

\* _add_javalang_node returns (_UNKNOWN_NODE_TYPE, UNKNOWN): no node, no edge
DropValue ==
  /\ AtChild /\ InChildren /\ stack # <<>>
  /\ jl[pos].kind \notin {"Node", "set", "str", "list"}
  /\ pos' = pos + 1
  /\ UNCHANGED <<jl, stray, registryVars, pc, err, stack, gnodes, adj, jmap, root, rpos, queryVars>>

\* a None member of a set is passed over
CollectionSkip ==
  /\ AtChild /\ InCollection
  /\ jl[pos].kind = "None"
  /\ pos' = pos + 1
  /\ UNCHANGED <<jl, stray, registryVars, pc, err, stack, gnodes, adj, jmap, root, rpos, queryVars>>

\* any other member of a set: ValueError, the build is over
CollectionRaise ==
  /\ AtChild /\ InCollection
  /\ jl[pos].kind \notin {"str", "None"}
  /\ pc' = "error"
  /\ err' = "ValueError"
  /\ UNCHANGED <<jl, stray, registryVars, pos, stack, gnodes, adj, jmap, root, rpos, queryVars>>

\* the open call has seen all its values
AtReturn ==
  /\ pc = "build"
  /\ stack # <<>>
  /\ IF pos > Len(jl) THEN TRUE ELSE jl[pos].depth < Len(stack)

\* a child's _add_subtree_from_javalang_node returns its index and
\* _add_javalang_children adds the edge (child_index is never UNKNOWN here)
ReturnChild ==
  /\ AtReturn /\ Len(stack) > 1
  /\ jl[Top.item].kind \in {"Node", "set"}
  /\ adj' = IF Top.index # UNKNOWN_NODE_TYPE
            THEN WithEdge(adj, stack[Len(stack) - 1].index, Top.index)
            ELSE adj
  /\ stack' = SubSeq(stack, 1, Len(stack) - 1)
  /\ UNCHANGED <<jl, stray, registryVars, pc, err, pos, gnodes, jmap, root, rpos, queryVars>>

\* the recursion into a nested list returns
ReturnList ==
  /\ AtReturn /\ Len(stack) > 1
  /\ jl[Top.item].kind = "list"
  /\ stack' = SubSeq(stack, 1, Len(stack) - 1)
  /\ UNCHANGED <<jl, stray, registryVars, pc, err, pos, gnodes, adj, jmap, root, rpos, queryVars>>

\* the outermost call returns root_id; the resolver pass is next
ReturnRoot ==
  /\ AtReturn /\ Len(stack) = 1
  /\ root' = Top.index
  /\ stack' = <<>>
  /\ pc' = "resolve"
  /\ UNCHANGED <<jl, stray, registryVars, err, pos, gnodes, adj, jmap, rpos, queryVars>>

(***************************************************************************)
(* The resolver pass.                                                      *)
(***************************************************************************)
Raise(e) == Atom(e)
IsRaise(v) == v.tag \in {"KeyError", "RuntimeError"}

\* mutant: a Node the map does not hold is left in place
CreateReferenceToNodeIfKnown(v) ==
  IF v.ref \in DOMAIN jmap THEN Ref(jmap[v.ref]) ELSE v

\* ASTNodeReference(self._javalang_node_to_index_map[javalang_node])
CreateReferenceToNode(v) ==
  IF v.ref \in DOMAIN jmap THEN Ref(jmap[v.ref]) ELSE Raise("KeyError")

\* _replace_javalang_nodes_in_list from item k on, acc the references so far
RECURSIVE ReplaceInListFrom(_, _, _)
ReplaceInListFrom(xs, k, acc) ==
  IF k > Len(xs) THEN List(acc)
  ELSE LET item == xs[k]
           r == CASE item.tag = "jnode" -> CreateReferenceToNode(item)
                  [] item.tag = "list" -> ReplaceInListFrom(item.items, 1, <<>>)
                  [] item.tag \in {"int", "str", "None"} -> item
                  [] OTHER -> Raise("RuntimeError")
       IN IF IsRaise(r) THEN r ELSE ReplaceInListFrom(xs, k + 1, Append(acc, r))

\* mutant: an item of no expected type is kept instead of raising
RECURSIVE ReplaceInListKeeping(_)
ReplaceInListKeeping(xs) ==
  List([k \in 1..Len(xs) |->
          CASE xs[k].tag = "jnode" -> CreateReferenceToNode(xs[k])
            [] xs[k].tag = "list" -> ReplaceInListKeeping(xs[k].items)
            [] OTHER -> xs[k]])

ReplaceInList(xs) == ReplaceInListFrom(xs, 1, <<>>)

\* mutant: the list branch is missing
ReplaceInAttributeNodeOnly(v) ==
  CASE v.tag = "jnode" -> CreateReferenceToNode(v)
    [] OTHER -> v

\* one attribute in the loop of _replace_javalang_nodes_in_attributes: a value
\* that is neither a Node nor a list is left as it is
ReplaceInAttribute(v) ==
  CASE v.tag = "jnode" -> CreateReferenceToNode(v)
    [] v.tag = "list" -> ReplaceInList(v.items)
    [] OTHER -> v

\* graph.nodes.items() goes through the nodes in insertion order
NodeOrder == SeqOfSet(DOMAIN gnodes)

Replaced(attributes) == [k \in 1..Len(attributes) |-> ReplaceInAttribute(attributes[k])]
Failing(attributes) == {k \in 1..Len(attributes) : IsRaise(Replaced(attributes)[k])}
FirstOf(S) == CHOOSE x \in S : \A y \in S : x <= y

\* every attribute of the next node is replaced
ResolveNode ==
  /\ pc = "resolve"
  /\ rpos < GraphLen
  /\ LET n == NodeOrder[rpos + 1] IN
       /\ Failing(gnodes[n].attrs) = {}
       /\ gnodes' = [gnodes EXCEPT ![n].attrs = Replaced(@)]
  /\ rpos' = rpos + 1
  /\ UNCHANGED <<jl, stray, registryVars, pc, err, pos, stack, adj, jmap, root, queryVars>>

\* an attribute of the next node raises: the attributes before it are
\* replaced, the pass is over
ResolveRaise ==
  /\ pc = "resolve"
  /\ rpos < GraphLen
  /\ LET n == NodeOrder[rpos + 1]
         bad == Failing(gnodes[n].attrs)
     IN /\ bad # {}
        /\ gnodes' = [gnodes EXCEPT ![n].attrs =
                        [k \in 1..Len(@) |-> IF k < FirstOf(bad) THEN Replaced(@)[k] ELSE @[k]]]
        /\ err' = Replaced(gnodes[n].attrs)[FirstOf(bad)].tag
  /\ pc' = "error"
  /\ UNCHANGED <<jl, stray, registryVars, pos, stack, adj, jmap, root, rpos, queryVars>>

AstOf(nodes, r) == [nodes |-> nodes, root |-> r]

\* the pass is over: AST(tree, root)
ResolveDone ==
  /\ pc = "resolve"
  /\ rpos = GraphLen
  /\ pc' = "done"
  /\ asts' = <<AstOf(DOMAIN gnodes, root)>>
  /\ UNCHANGED <<jl, stray, registryVars, err, pos, stack, gnodes, adj, jmap, root, rpos,
                 fakes, issued, last>>

(***************************************************************************)
(* AST instances.  An instance's tree is the built DiGraph or a subgraph   *)
(* view of it: the nodes it keeps, with the edges of the DiGraph between   *)
(* them.                                                                   *)
(***************************************************************************)
Reverse(s) == [k \in 1..Len(s) |-> s[Len(s) + 1 - k]]

\* G[n] of a directed view: the successors the view keeps, in add_edge order
Successors(a, n) == SelectSeq(adj[n], LAMBDA c : c \in a.nodes)

Predecessors(a, n) == {p \in a.nodes : \E k \in 1..Len(adj[p]) : adj[p][k] = n}

\* to_undirected(as_view=True) goes through set(successors) | set(predecessors):
\* the order of a Python set is not fixed, two orders are modelled
SetOrders == {"ascending", "descending"}

Neighbours(a, undirected, ord, n) ==
  IF undirected
  THEN LET S == {Successors(a, n)[k] : k \in 1..Len(Successors(a, n))} \cup Predecessors(a, n)
       IN IF ord = "ascending" THEN SeqOfSet(S) ELSE Reverse(SeqOfSet(S))
  ELSE Successors(a, n)

\* one turn of the while loop of networkx dfs_labeled_edges; d holds visited,
\* the stack of (node, depth_now, children still to see) and the edges yielded
DfsStep(a, undirected, ord, d) ==
  LET top == d.stack[Len(d.stack)]
      popped == SubSeq(d.stack, 1, Len(d.stack) - 1)
      child == Head(top.rest)
      advanced == [d.stack EXCEPT ![Len(d.stack)].rest = Tail(@)]
  IN IF top.rest = <<>>
     THEN [d EXCEPT !.stack = popped,
                    !.out = IF popped # <<>>
                            THEN Append(@, <<popped[Len(popped)].node, top.node, "reverse">>)
                            ELSE @]
     ELSE IF child \in d.visited
     THEN [d EXCEPT !.stack = advanced,
                    !.out = Append(@, <<top.node, child, "nontree">>)]
     ELSE [d EXCEPT !.visited = @ \cup {child},
                    !.stack = IF top.depth_now > 1
                              THEN Append(advanced,
                                          [node |-> child, depth_now |-> top.depth_now - 1,
                                           rest |-> Neighbours(a, undirected, ord, child)])
                              ELSE advanced,
                    !.out = Append(@, <<top.node, child, "forward">>)]

RECURSIVE DfsRun(_, _, _, _)
DfsRun(a, undirected, ord, d) ==
  IF d.stack = <<>> THEN d.out ELSE DfsRun(a, undirected, ord, DfsStep(a, undirected, ord, d))

\* dfs_labeled_edges(G, source): (u, v, label) in the order they are yielded;
\* depth_limit is len(G)
DfsLabeledEdges(a, undirected, ord, source) ==
  Append(DfsRun(a, undirected, ord,
                [visited |-> {source},
                 stack |-> <<[node |-> source, depth_now |-> Cardinality(a.nodes),
                              rest |-> Neighbours(a, undirected, ord, source)]>>,
                 out |-> <<<<source, source, "forward">>>>]),
         <<source, source, "reverse">>)

\* mutant: every edge that is not "forward" calls on_node_leaving
TraverseCallsElseLeaving(edges) ==
  [k \in 1..Len(edges) |->
     <<IF edges[k][3] = "forward" THEN "enter" ELSE "leave", edges[k][2]>>]

\* mutant: on_node_leaving is never called
TraverseCallsEnteringOnly(edges) ==
  LET kept == SelectSeq(edges, LAMBDA e : e[3] = "forward")
  IN [k \in 1..Len(kept) |-> <<"enter", kept[k][2]>>]

\* the callbacks AST.traverse makes for the edges, in order
TraverseCalls(edges) ==
  LET kept == SelectSeq(edges, LAMBDA e : e[3] \in {"forward", "reverse"})
  IN [k \in 1..Len(kept) |->
        <<IF kept[k][3] = "forward" THEN "enter" ELSE "leave", kept[k][2]>>]

Call(op, a, arg, flag, out) == [op |-> op, ast |-> a, arg |-> arg, flag |-> flag, out |-> out]

\* The read-only queries end a run: they change nothing of the program, so
\* what can follow them is what can follow the state they were called in.
ReadOnly == {"traverse", "find_top_level", "find_bottom_level", "get_proxy_nodes", "get_subtrees"}
Ready == pc = "done" /\ last.op \notin ReadOnly

\* AST.traverse(on_node_entering, on_node_leaving, source_node, undirected)
Traverse ==
  /\ Ready
  /\ \E a \in 1..Len(asts), undirected \in BOOLEAN, ord \in SetOrders :
       \E source \in asts[a].nodes :
         last' = Call("traverse", a, source, undirected,
                      TraverseCalls(DfsLabeledEdges(asts[a], undirected, ord, source)))
  /\ UNCHANGED <<graphVars, registryVars, asts, fakes, issued>>

\* the traversal the searches run: traverse() with its default arguments
DefaultCalls(a) == TraverseCalls(DfsLabeledEdges(a, FALSE, "ascending", a.root))

Matches(n, types) == gnodes[n].node_type \in types

\* TOP_LEVEL search: s holds the active match (0 when none) and the result
TopLevelStep(types, s, c) ==
  IF c[1] = "enter"
  THEN IF Matches(c[2], types) /\ s.active = 0
       THEN [active |-> c[2], result |-> Append(s.result, c[2])]
       ELSE s
  ELSE IF c[2] = s.active THEN [s EXCEPT !.active = 0] ELSE s

RECURSIVE TopLevelFrom(_, _, _, _)
TopLevelFrom(types, calls, k, s) ==
  IF k > Len(calls) THEN s.result
  ELSE TopLevelFrom(types, calls, k + 1, TopLevelStep(types, s, calls[k]))

\* mutant: entering a match marks nothing
BottomLevelStepNoMark(types, s, c) ==
  IF ~Matches(c[2], types) THEN s
  ELSE IF c[1] = "enter"
  THEN [s EXCEPT !.stack = Append(@, c[2])]
  ELSE [s EXCEPT !.stack = IF @ = <<>> THEN @ ELSE SubSeq(@, 1, Len(@) - 1),
                 !.result = IF c[2] \in s.notbottom THEN @ ELSE Append(@, c[2])]

\* BOTTOM_LEVEL search: s holds the stack of open matches, the matches marked
\* not-bottom and the result
BottomLevelStep(types, s, c) ==
  IF ~Matches(c[2], types) THEN s
  ELSE IF c[1] = "enter"
  THEN [s EXCEPT !.notbottom = @ \cup {s.stack[k] : k \in 1..Len(s.stack)},
                 !.stack = Append(@, c[2])]
  ELSE [s EXCEPT !.stack = IF @ = <<>> THEN @ ELSE SubSeq(@, 1, Len(@) - 1),
                 !.result = IF c[2] \in s.notbottom THEN @ ELSE Append(@, c[2])]

RECURSIVE BottomLevelFrom(_, _, _, _)
BottomLevelFrom(types, calls, k, s) ==
  IF k > Len(calls) THEN s.result
  ELSE BottomLevelFrom(types, calls, k + 1, BottomLevelStep(types, s, calls[k]))

\* the node-type sets the calls are made with
TypeSets == SUBSET QueryNodeTypes

\* find_nodes with the TOP_LEVEL search filter
FindTopLevel ==
  /\ Ready
  /\ \E a \in 1..Len(asts), types \in TypeSets \ {{}} :
       last' = Call("find_top_level", a, types, FALSE,
                    TopLevelFrom(types, DefaultCalls(asts[a]), 1,
                                 [active |-> 0, result |-> <<>>]))
  /\ UNCHANGED <<graphVars, registryVars, asts, fakes, issued>>

\* find_nodes with the BOTTOM_LEVEL search filter
FindBottomLevel ==
  /\ Ready
  /\ \E a \in 1..Len(asts), types \in TypeSets \ {{}} :
       last' = Call("find_bottom_level", a, types, FALSE,
                    BottomLevelFrom(types, DefaultCalls(asts[a]), 1,
                                    [stack |-> <<>>, notbottom |-> {}, result |-> <<>>]))
  /\ UNCHANGED <<graphVars, registryVars, asts, fakes, issued>>

\* AST.get_proxy_nodes: the nodes of the tree, in node order
GetProxyNodes ==
  /\ Ready
  /\ \E a \in 1..Len(asts), types \in TypeSets :
       last' = Call("get_proxy_nodes", a, types, FALSE,
                    SelectSeq(SeqOfSet(asts[a].nodes),
                              LAMBDA n : types = {} \/ Matches(n, types)))
  /\ UNCHANGED <<graphVars, registryVars, asts, fakes, issued>>

\* mutant: the buffer is not emptied after a subtree is yielded
SubtreesStepKeepBuffer(a, types, s, e) ==
  IF e[3] = "forward"
  THEN IF s.inside THEN [s EXCEPT !.subtree = Append(@, e[2])]
       ELSE IF Matches(e[2], types)
       THEN [s EXCEPT !.subtree = Append(@, e[2]), !.inside = TRUE, !.current = e[2]]
       ELSE s
  ELSE IF e[3] = "reverse" /\ e[2] = s.current
  THEN [s EXCEPT !.inside = FALSE,
                 !.yielded = Append(@, AstOf({s.subtree[k] : k \in 1..Len(s.subtree)}
                                               \cap a.nodes, s.current)),
                 !.current = -1]
  ELSE s

\* the body of the loop of AST.get_subtrees for one edge
SubtreesStep(a, types, s, e) ==
  IF e[3] = "forward"
  THEN IF s.inside THEN [s EXCEPT !.subtree = Append(@, e[2])]
       ELSE IF Matches(e[2], types)
       THEN [s EXCEPT !.subtree = Append(@, e[2]), !.inside = TRUE, !.current = e[2]]
       ELSE s
  ELSE IF e[3] = "reverse" /\ e[2] = s.current
  THEN [s EXCEPT !.inside = FALSE,
                 !.yielded = Append(@, AstOf({s.subtree[k] : k \in 1..Len(s.subtree)}
                                               \cap a.nodes, s.current)),
                 !.subtree = <<>>,
                 !.current = -1]
  ELSE s

RECURSIVE SubtreesFrom(_, _, _, _, _)
SubtreesFrom(a, types, edges, k, s) ==
  IF k > Len(edges) THEN s.yielded
  ELSE SubtreesFrom(a, types, edges, k + 1, SubtreesStep(a, types, s, edges[k]))

\* AST.get_subtrees, the generator run to its end
GetSubtrees ==
  /\ Ready
  /\ \E a \in 1..Len(asts), types \in TypeSets :
       last' = Call("get_subtrees", a, types, FALSE,
                    SubtreesFrom(asts[a], types,
                                 DfsLabeledEdges(asts[a], FALSE, "ascending", asts[a].root), 1,
                                 [inside |-> FALSE, current |-> -1, subtree |-> <<>>,
                                  yielded |-> <<>>]))
  /\ UNCHANGED <<graphVars, registryVars, asts, fakes, issued>>

\* dfs_preorder_nodes(G, source): the ends of the "forward" edges
DfsPreorderNodes(a, source) ==
  LET kept == SelectSeq(DfsLabeledEdges(a, FALSE, "ascending", source),
                        LAMBDA e : e[3] = "forward")
  IN {kept[k][2] : k \in 1..Len(kept)}

\* mutant: the walk starts at the root of the tree, not at the node given
SubtreeAtFromRoot(a, n) == AstOf(DfsPreorderNodes(a, a.root) \cap a.nodes, n)

\* AST(self.tree.subgraph(subtree_nodes_indexes), node.node_index)
SubtreeAt(a, n) == AstOf(DfsPreorderNodes(a, n) \cap a.nodes, n)

\* the entries of a dict keyed by AST instance, without those of the instance
\* the caller has let go
Kept(f) == [k \in DOMAIN f \ {2} |-> f[k]]

\* AST.get_subtree(node): the caller holds the new instance in place of the
\* subtree it extracted before
GetSubtree ==
  /\ Ready
  /\ \E a \in 1..Len(asts) : \E n \in asts[a].nodes :
       /\ asts' = <<asts[1], SubtreeAt(asts[a], n)>>
       /\ last' = Call("get_subtree", a, n, FALSE, <<SubtreeAt(asts[a], n)>>)
  /\ fakes' = Kept(fakes)
  /\ issued' = Kept(issued)
  /\ UNCHANGED <<graphVars, registryVars>>

\* mutant: one counter for all graphs
FakeNodesQtyShared(a) ==
  (IF 1 \in DOMAIN fakes THEN fakes[1] ELSE 0) + (IF 2 \in DOMAIN fakes THEN fakes[2] ELSE 0)

\* self._fake_nodes_qty_per_graph[self.tree], a defaultdict with default 0
FakeNodesQty(a) == IF a \in DOMAIN fakes THEN fakes[a] ELSE 0

IssuedBy(a) == IF a \in DOMAIN issued THEN issued[a] ELSE <<>>

\* AST.create_fake_node()
CreateFakeNode ==
  /\ Ready
  /\ \E a \in 1..Len(asts) :
       /\ Len(IssuedBy(a)) < MaxFakes
       /\ LET fake_nodes_qty == FakeNodesQty(a)
              new_fake_node_id == -(fake_nodes_qty + 1)
          IN /\ fakes' = (a :> fake_nodes_qty + 1) @@ fakes
             /\ issued' = (a :> Append(IssuedBy(a), new_fake_node_id)) @@ issued
             /\ last' = Call("create_fake_node", a, 0, FALSE, <<new_fake_node_id>>)
  /\ UNCHANGED <<graphVars, registryVars, asts>>

(***************************************************************************)
(* The computed fields registry.  A computator is an opaque callable, a    *)
(* dict is a function from its keys; a key of the defaultdict that was     *)
(* never looked up is not in its domain.                                   *)
(***************************************************************************)
\* node types and field names of the standard computed fields
RegistryTypes == {"CLASS_DECLARATION", "ENUM_DECLARATION"}
FieldNames == {"methods", "fields"}
Computators == {"f", "g"}

\* node types listed in one register call
MaxTypes == 2

\* *node_types of a call: any tuple of node types, repeats included
RECURSIVE TypeLists(_)
TypeLists(n) ==
  IF n = 0 THEN {<<>>}
  ELSE TypeLists(n - 1)
         \cup {Append(p[1], p[2]) :
                 p \in {q \in TypeLists(n - 1) : Len(q) = n - 1} \X RegistryTypes}

\* self._registry[node_type] on a defaultdict(dict): a missing key is
\* inserted with an empty dict
Lookup(r, node_type) == IF node_type \in DOMAIN r THEN r ELSE (node_type :> <<>>) @@ r

\* the loop of register from the k-th node type on, r the registry so far
RECURSIVE RegisterFrom(_, _, _, _, _, _)
RegisterFrom(r, compute_field, name, node_types, shell, k) ==
  IF k > Len(node_types) THEN [registry |-> r, raised |-> FALSE]
  ELSE LET node_type == node_types[k]
           looked == Lookup(r, node_type)
           computed_fields == looked[node_type]
       IN IF name \in DOMAIN computed_fields /\ ~shell
          THEN [registry |-> looked, raised |-> TRUE]
          ELSE RegisterFrom([looked EXCEPT ![node_type] = (name :> compute_field) @@ computed_fields],
                            compute_field, name, node_types, shell, k + 1)

RegistryCall(op, name, f, types, shell, raised, out) ==
  [op |-> op, name |-> name, f |-> f, types |-> types, shell |-> shell,
   before |-> registry, raised |-> raised, out |-> out]

\* register(compute_field, name, *node_types); shell is what
\* _is_in_interactive_shell() returns during the call
Register ==
  /\ \E compute_field \in Computators, name \in FieldNames,
        node_types \in TypeLists(MaxTypes), shell \in BOOLEAN :
       LET done == RegisterFrom(registry, compute_field, name, node_types, shell, 1)
       IN /\ registry' = done.registry
          /\ rlast' = RegistryCall("register", name, compute_field, node_types, shell,
                                   done.raised, <<>>)
  /\ UNCHANGED <<graphVars, queryVars>>

\* get_fields(node_type)
GetFields ==
  /\ \E node_type \in RegistryTypes :
       /\ registry' = Lookup(registry, node_type)
       /\ rlast' = RegistryCall("get_fields", "", "", <<node_type>>, FALSE, FALSE,
                                Lookup(registry, node_type)[node_type])
  /\ UNCHANGED <<graphVars, queryVars>>

\* clear()
Clear ==
  /\ registry' = <<>>
  /\ rlast' = RegistryCall("clear", "", "", <<>>, FALSE, FALSE, <<>>)
  /\ UNCHANGED <<graphVars, queryVars>>

(***************************************************************************)
(* Specifications.                                                         *)
(***************************************************************************)
\* no call on the registry yet
NoRegistryCall ==
  [op |-> "none", name |-> "", f |-> "", types |-> <<>>, shell |-> FALSE,
   before |-> <<>>, raised |-> FALSE, out |-> <<>>]

NoCall == [op |-> "none", ast |-> 0, arg |-> 0, flag |-> FALSE, out |-> <<>>]

InitTree(types, leaves, maxlen) ==
  /\ \E n \in 1..maxlen : jl \in TreesOfLen(types, leaves, n)
  /\ pc = "build"
  /\ err = ""
  /\ pos = 1
  /\ stack = <<>>
  /\ gnodes = <<>>
  /\ adj = <<>>
  /\ jmap = <<>>
  /\ root = 0
  /\ rpos = 0
  /\ asts = <<>>
  /\ fakes = <<>>
  /\ issued = <<>>
  /\ last = NoCall
  /\ registry = <<>>
  /\ rlast = NoRegistryCall

\* every attribute value of a Node is one of its children
InitWith(types, leaves, maxlen) == InitTree(types, leaves, maxlen) /\ stray = {}

Init == InitWith(BuildNodeTypes, TRUE, MaxItems)

Build ==
  \/ AddStandardNode
  \/ AddCollectionNode
  \/ AddStringNode
  \/ EnterList
  \/ DropValue
  \/ CollectionSkip
  \/ CollectionRaise
  \/ ReturnChild
  \/ ReturnList
  \/ ReturnRoot
  \/ ResolveNode
  \/ ResolveRaise
  \/ ResolveDone

Next == Build

Spec == Init /\ [][Next]_vars

\* the trees of Nodes only, and the steps of the builder they take
InitAst == InitWith(QueryNodeTypes, FALSE, MaxNodes)

BuildNodes ==
  \/ AddStandardNode
  \/ ReturnChild
  \/ ReturnRoot
  \/ ResolveNode
  \/ ResolveDone

NextAst ==
  \/ BuildNodes
  \/ Traverse
  \/ FindTopLevel
  \/ FindBottomLevel
  \/ GetProxyNodes
  \/ GetSubtrees
  \/ GetSubtree

SpecAst == InitAst /\ [][NextAst]_vars

NextFake ==
  \/ BuildNodes
  \/ GetSubtree
  \/ CreateFakeNode

SpecFake == InitAst /\ [][NextFake]_vars

\* the trees in which at most one Node carries a stray attribute
Strays == {{}} \cup {{<<i, s>>} : i \in {j \in 1..Len(jl) : jl[j].kind = "Node"}, s \in StrayShapes}

InitStray == InitTree(BuildNodeTypes, TRUE, MaxItems - 1) /\ stray \in Strays

SpecStray == InitStray /\ [][Build]_vars

\* the registry of a process, before and apart from any build
InitRegistry == InitWith({"CLASS_DECLARATION"}, FALSE, 1)

NextRegistry ==
  \/ Register
  \/ GetFields
  \/ Clear

SpecRegistry == InitRegistry /\ [][NextRegistry]_vars

(***************************************************************************)
(* Reading the graph.                                                      *)
(***************************************************************************)
Range(s) == {s[k] : k \in 1..Len(s)}

Edges == UNION {{<<u, adj[u][k]>> : k \in 1..Len(adj[u])} : u \in DOMAIN adj}

\* number of add_edge results that end in n
InDegree(n) ==
  Cardinality(UNION {{<<u, k>> : k \in {j \in 1..Len(adj[u]) : adj[u][j] = n}} :
                       u \in DOMAIN adj})

RECURSIVE Concat(_)
Concat(ss) == IF ss = <<>> THEN <<>> ELSE Head(ss) \o Concat(Tail(ss))

\* depth-first preorder from n, children in adjacency order
RECURSIVE PreorderFrom(_)
PreorderFrom(n) ==
  <<n>> \o Concat([k \in 1..Len(adj[n]) |-> PreorderFrom(adj[n][k])])

\* n and everything below it
RECURSIVE Subtree(_)
Subtree(n) == {n} \cup UNION {Subtree(c) : c \in Range(adj[n])}

Built == pc \in {"resolve", "done"}

\* native values that become graph nodes
Inserted == {i \in 1..Len(jl) : jl[i].kind \in {"Node", "set", "str"}}

(***************************************************************************)
(* C1: after a successful build the node ids are exactly 1..N, N the       *)
(* number of graph nodes: each insertion took the node count plus one, no  *)
(* id is reused and none is skipped.                                       *)
(***************************************************************************)
C1_IdsDense ==
  /\ DOMAIN gnodes = 1..GraphLen
  /\ Built => DOMAIN gnodes = 1..Cardinality(Inserted)

C1_Witness ==
  /\ pc = "done"
  /\ GraphLen = 3
  /\ \E n \in DOMAIN gnodes : gnodes[n].node_type = "COLLECTION"
  /\ \E n \in DOMAIN gnodes : gnodes[n].node_type = "STRING"
  /\ \E i \in 1..Len(jl) : jl[i].kind = "None"

(***************************************************************************)
(* C2: after a successful build the edges form a tree rooted at the        *)
(* returned root: both ends of every edge are graph nodes, the root has no *)
(* incoming edge, every other node has exactly one and is reachable from   *)
(* the root; a dropped child gives no node and no edge.                    *)
(***************************************************************************)
C2_RootedTree ==
  Built =>
    /\ root \in DOMAIN gnodes
    /\ DOMAIN adj = DOMAIN gnodes
    /\ \A e \in Edges : e[1] \in DOMAIN gnodes /\ e[2] \in DOMAIN gnodes
    /\ InDegree(root) = 0
    /\ \A n \in DOMAIN gnodes \ {root} : InDegree(n) = 1
    /\ Subtree(root) = DOMAIN gnodes
    /\ GraphLen = Cardinality(Inserted)
    /\ Cardinality(Edges) = Cardinality(Inserted) - 1

C2_Witness ==
  /\ pc = "done"
  /\ GraphLen >= 3
  /\ \E i \in 2..Len(jl) : jl[i].kind = "None" /\ jl[ParentItem(i)].kind = "Node"

(***************************************************************************)
(* C3: once build and the resolver pass have completed, no attribute value *)
(* is a raw javalang Node or holds one inside lists at any depth: each one *)
(* has become the reference to the index the identity map records for it.  *)
(***************************************************************************)
RECURSIVE HasRawNode(_)
HasRawNode(v) ==
  \/ v.tag = "jnode"
  \/ v.tag = "list" /\ \E k \in 1..Len(v.items) : HasRawNode(v.items[k])

\* res is raw with every javalang Node turned into its reference
RECURSIVE ResolvedFrom(_, _)
ResolvedFrom(raw, res) ==
  CASE raw.tag = "jnode" -> res = Ref(jmap[raw.ref])
    [] raw.tag = "list" ->
         /\ res.tag = "list"
         /\ Len(res.items) = Len(raw.items)
         /\ \A k \in 1..Len(raw.items) : ResolvedFrom(raw.items[k], res.items[k])
    [] OTHER -> res = raw

RawAttributes(i) == NodeAttributes(i)

C3_NoRawNodes ==
  pc = "done" =>
    /\ \A n \in DOMAIN gnodes : \A k \in 1..Len(gnodes[n].attrs) :
         ~HasRawNode(gnodes[n].attrs[k])
    /\ \A i \in DOMAIN jmap :
         /\ Len(gnodes[jmap[i]].attrs) = Len(RawAttributes(i))
         /\ \A k \in 1..Len(RawAttributes(i)) :
              ResolvedFrom(RawAttributes(i)[k], gnodes[jmap[i]].attrs[k])

C3_Witness ==
  /\ pc = "done"
  /\ \E n \in DOMAIN gnodes : \E k \in 1..Len(gnodes[n].attrs) :
       /\ gnodes[n].attrs[k].tag = "list"
       /\ \E j \in 1..Len(gnodes[n].attrs[k].items) :
            /\ gnodes[n].attrs[k].items[j].tag = "list"
            /\ \E m \in 1..Len(gnodes[n].attrs[k].items[j].items) :
                 gnodes[n].attrs[k].items[j].items[m].tag = "ref"

(***************************************************************************)
(* C4: the node ids are a preorder numbering: the depth-first preorder     *)
(* from the root, children in the order they were linked, lists the ids in *)
(* ascending order, and the ids of a node and its descendants are the      *)
(* interval that starts at the node.                                       *)
(***************************************************************************)
C4_PreorderIds ==
  Built =>
    /\ PreorderFrom(root) = [k \in 1..GraphLen |-> k]
    /\ \A n \in DOMAIN gnodes : Subtree(n) = n..(n + Cardinality(Subtree(n)) - 1)

C4_Witness ==
  /\ pc = "done"
  /\ \E n \in DOMAIN gnodes :
       /\ Len(adj[n]) >= 2
       /\ adj[adj[n][1]] # <<>>


(***************************************************************************)
(* Reading the calls.                                                      *)
(***************************************************************************)
\* the nodes open before the k-th callback, innermost last; <<0>> once a
\* leaving callback did not close the innermost open node
OpenStep(s, c) ==
  IF s = <<0>> THEN s
  ELSE IF c[1] = "enter" THEN Append(s, c[2])
  ELSE IF s # <<>> /\ s[Len(s)] = c[2] THEN SubSeq(s, 1, Len(s) - 1)
  ELSE <<0>>

RECURSIVE OpenBefore(_, _)
OpenBefore(calls, k) ==
  IF k = 1 THEN <<>> ELSE OpenStep(OpenBefore(calls, k - 1), calls[k - 1])

At(calls, c) == {k \in 1..Len(calls) : calls[k] = c}

IsChild(p, n) == n \in Range(adj[p])

\* the nodes of types in the tree of a, and those among them with no other
\* one above, or below, them
MatchesIn(a, types) == {n \in a.nodes : Matches(n, types)}

Outermost(a, types) ==
  {n \in MatchesIn(a, types) : ~\E m \in MatchesIn(a, types) \ {n} : n \in Subtree(m)}

Innermost(a, types) ==
  {n \in MatchesIn(a, types) : ~\E m \in MatchesIn(a, types) \ {n} : m \in Subtree(n)}

NoDuplicates(s) == Cardinality(Range(s)) = Len(s)

ViewEdges(a) == UNION {{<<u, v>> : v \in Range(Successors(a, u))} : u \in a.nodes}

C6_TopLevel ==
  last.op = "find_top_level" =>
    /\ Range(last.out) = Outermost(asts[last.ast], last.arg)
    /\ NoDuplicates(last.out)

\* two matches returned, the first with a match nested in it
C6_Witness ==
  /\ last.op = "find_top_level"
  /\ Len(last.out) = 2
  /\ \E m \in MatchesIn(asts[last.ast], last.arg) :
       m # last.out[1] /\ m \in Subtree(last.out[1])

(***************************************************************************)
(* C7: a BOTTOM_LEVEL search with a non-empty type set returns, once each, *)
(* exactly the nodes of the tree that match and have no matching proper    *)
(* descendant, also with matches nested three deep and with a match that   *)
(* has matching descendants in two branches.                               *)
(***************************************************************************)
C7_BottomLevel ==
  last.op = "find_bottom_level" =>
    /\ Range(last.out) = Innermost(asts[last.ast], last.arg)
    /\ NoDuplicates(last.out)

\* three matches nested in each other, and a match in another branch of
\* the outermost one
C7_Witness ==
  /\ last.op = "find_bottom_level"
  /\ Len(last.out) = 2
  /\ \E m1, m2, m3, m4 \in MatchesIn(asts[last.ast], last.arg) :
       /\ m2 # m1 /\ m2 \in Subtree(m1)
       /\ m3 # m2 /\ m3 \in Subtree(m2)
       /\ m4 # m1 /\ m4 \in Subtree(m1) /\ m4 \notin Subtree(m2)

(***************************************************************************)
(* C8: get_subtrees yields one subtree for each matching node with no      *)
(* matching proper ancestor, in the preorder of these nodes, and nothing   *)
(* else; a yielded subtree is rooted at its node and holds the node and    *)
(* all its descendants, so the yielded subtrees are pairwise disjoint.     *)
(***************************************************************************)
C8_Subtrees ==
  last.op = "get_subtrees" =>
    LET a == asts[last.ast]
        out == last.out
    IN /\ [k \in 1..Len(out) |-> out[k].root] =
            SelectSeq(PreorderFrom(a.root), LAMBDA n : n \in Outermost(a, last.arg))
       /\ \A k \in 1..Len(out) : out[k].nodes = Subtree(out[k].root)
       /\ \A j, k \in 1..Len(out) : j # k => out[j].nodes \cap out[k].nodes = {}

\* a match absorbed by the first subtree, and a second subtree started
\* after the first was closed
C8_Witness ==
  /\ last.op = "get_subtrees"
  /\ Len(last.out) = 2
  /\ \E n \in last.out[1].nodes : n # last.out[1].root /\ Matches(n, last.arg)

(***************************************************************************)
(* C9: get_subtree(n) returns an AST rooted at n whose nodes are n and     *)
(* all nodes reachable from n along parent->child edges and whose edges    *)
(* are the edges of the graph between these nodes; no call changes the     *)
(* nodes or the edges of the graph it is made on.                          *)
(***************************************************************************)
C9_SubtreeReturned ==
  last.op = "get_subtree" =>
    LET out == last.out[1]
    IN /\ out.root = last.arg
       /\ out.nodes = Subtree(last.arg)
       /\ ViewEdges(out) = {e \in Edges : e[1] \in out.nodes /\ e[2] \in out.nodes}
       /\ asts[2] = out
       /\ asts[1] = AstOf(DOMAIN gnodes, root)

C9_GraphUnchanged ==
  pc = "done" => gnodes' = gnodes /\ adj' = adj /\ root' = root /\ asts'[1] = asts[1]

C9_Subtree == [](C9_SubtreeReturned) /\ [][C9_GraphUnchanged]_vars

\* a proper subtree of more than one node, taken from a subtree
C9_Witness ==
  /\ last.op = "get_subtree"
  /\ last.ast = 2
  /\ last.arg # root
  /\ Cardinality(last.out[1].nodes) >= 2

(***************************************************************************)
(* C10: the ids create_fake_node has returned for one graph instance are   *)
(* -1, -2, ..., -k in call order, whatever was called on the other         *)
(* instances, the subtrees extracted from it included; none of them is the *)
(* id of a real node.                                                      *)
(***************************************************************************)
C10_FakeIds ==
  /\ \A a \in 1..Len(asts) :
       /\ IssuedBy(a) = [k \in 1..Len(IssuedBy(a)) |-> -k]
       /\ FakeNodesQty(a) = Len(IssuedBy(a))
       /\ \A k \in 1..Len(IssuedBy(a)) : IssuedBy(a)[k] \notin DOMAIN gnodes
  /\ last.op = "create_fake_node" =>
       last.out = <<-Len(IssuedBy(last.ast))>>

\* calls on the built tree and on a subtree extracted from it, the last
\* one on the built tree after the subtree got an id
C10_Witness ==
  /\ last.op = "create_fake_node"
  /\ last.ast = 1
  /\ Len(asts) = 2
  /\ Len(IssuedBy(1)) = 2
  /\ Len(IssuedBy(2)) >= 1


(***************************************************************************)
(* Reading the registry.                                                   *)
(***************************************************************************)
\* what get_fields(t) would return for the registry r
Fields(r, t) == IF t \in DOMAIN r THEN r[t] ELSE <<>>

HasField(r, t, name) == name \in DOMAIN Fields(r, t)

(***************************************************************************)
(* C11: outside an interactive context a register call fails iff a listed  *)
(* type has an entry for the name from an earlier call since the last      *)
(* clear; a register that does not fail leaves the computator under the    *)
(* name for every listed type; inside an interactive context register      *)
(* never fails and the last computator wins; get_fields returns what is    *)
(* registered for the type, nothing after a clear.                         *)
(***************************************************************************)
C11_DuplicateGuard ==
  /\ rlast.op = "register" =>
       /\ ~rlast.shell =>
            (rlast.raised <=>
               \E t \in Range(rlast.types) : HasField(rlast.before, t, rlast.name))
       /\ rlast.shell => ~rlast.raised
       /\ ~rlast.raised =>
            \A t \in Range(rlast.types) :
              /\ HasField(registry, t, rlast.name)
              /\ Fields(registry, t)[rlast.name] = rlast.f
  /\ rlast.op = "get_fields" => rlast.out = Fields(rlast.before, rlast.types[1])
  /\ rlast.op = "clear" => \A t \in RegistryTypes : Fields(registry, t) = <<>>

(***************************************************************************)
(* C14: a register call that fails leaves the registry as it was before    *)
(* the call: no listed type that lacked the name has it afterwards.        *)
(***************************************************************************)
C14_AllOrNothing ==
  (rlast.op = "register" /\ rlast.raised) =>
    \A t \in RegistryTypes : Fields(registry, t) = Fields(rlast.before, t)


(***************************************************************************)
(* C12 as stated: the resolver pass does not complete when an attribute    *)
(* holds, directly or inside a list at any depth, a value that is not a    *)
(* native node, a list, an integer, a string or None.                      *)
(***************************************************************************)
Classified(v) == v.tag \in {"jnode", "list", "int", "str", "None"}

RECURSIVE UnclassifiedInList(_)
UnclassifiedInList(v) ==
  /\ v.tag = "list"
  /\ \E k \in 1..Len(v.items) : ~Classified(v.items[k]) \/ UnclassifiedInList(v.items[k])

C12_FailsOnAnyShape ==
  pc = "done" =>
    \A i \in DOMAIN jmap : \A k \in 1..Len(RawAttributes(i)) :
      /\ Classified(RawAttributes(i)[k])
      /\ ~UnclassifiedInList(RawAttributes(i)[k])

(***************************************************************************)
(* C12 amended: the resolver pass does not complete when an attribute      *)
(* holds such a value as an element of a list at any depth, and it ends in *)
(* RuntimeError only then; a value held directly as the attribute value    *)
(* that is neither a native node nor a list is left as it is and does not  *)
(* fail the pass.                                                          *)
(***************************************************************************)
C12_FailsOnListShapes ==
  /\ pc = "done" =>
       \A i \in DOMAIN jmap : \A k \in 1..Len(RawAttributes(i)) :
         /\ ~UnclassifiedInList(RawAttributes(i)[k])
         /\ RawAttributes(i)[k].tag \notin {"jnode", "list"} =>
              gnodes[jmap[i]].attrs[k] = RawAttributes(i)[k]
  /\ (pc = "error" /\ err = "RuntimeError") =>
       \E i \in DOMAIN jmap : \E k \in 1..Len(RawAttributes(i)) :
         UnclassifiedInList(RawAttributes(i)[k])

\* the pass has ended in RuntimeError on a value two lists deep
C12_Witness ==
  /\ pc = "error"
  /\ err = "RuntimeError"
  /\ \E i \in DOMAIN jmap : \E k \in 1..Len(RawAttributes(i)) :
       LET v == RawAttributes(i)[k]
       IN /\ v.tag = "list"
          /\ \E j \in 1..Len(v.items) :
               /\ v.items[j].tag = "list"
               /\ \E m \in 1..Len(v.items[j].items) : ~Classified(v.items[j].items[m])


(***************************************************************************)
(* C13: the identity map holds exactly the native Nodes that were inserted *)
(* into the graph, each under the index of its own node: no set, no str,   *)
(* no dropped value; and the resolver pass does not complete, but ends in  *)
(* KeyError, when an attribute holds, directly or inside lists, a native   *)
(* Node the identity map does not hold.                                    *)
(***************************************************************************)
RECURSIVE HoldsUnmappedNode(_)
HoldsUnmappedNode(v) ==
  \/ v.tag = "jnode" /\ v.ref \notin DOMAIN jmap
  \/ v.tag = "list" /\ \E k \in 1..Len(v.items) : HoldsUnmappedNode(v.items[k])

C13_IdentityMap ==
  /\ DOMAIN jmap = {i \in 1..(pos - 1) : jl[i].kind = "Node"}
  /\ \A i \in DOMAIN jmap :
       /\ jmap[i] \in DOMAIN gnodes
       /\ gnodes[jmap[i]].node_type = jl[i].ntype
       /\ \A j \in DOMAIN jmap : jmap[i] = jmap[j] => i = j
  /\ \A n \in DOMAIN gnodes :
       gnodes[n].node_type \in {"COLLECTION", "STRING"} <=>
         ~\E i \in DOMAIN jmap : jmap[i] = n
  /\ Built => DOMAIN jmap = {i \in 1..Len(jl) : jl[i].kind = "Node"}
  /\ pc = "done" =>
       \A i \in DOMAIN jmap : \A k \in 1..Len(RawAttributes(i)) :
         ~HoldsUnmappedNode(RawAttributes(i)[k])
  /\ (pc = "error" /\ err = "KeyError") =>
       \E i \in DOMAIN jmap : \E k \in 1..Len(RawAttributes(i)) :
         HoldsUnmappedNode(RawAttributes(i)[k])

\* the pass has ended in KeyError on a Node inside lists, in a graph that
\* has a node the identity map does not name
C13_Witness ==
  /\ pc = "error"
  /\ err = "KeyError"
  /\ \E p \in stray : p[2] = "listed"
  /\ \E n \in DOMAIN gnodes : gnodes[n].node_type \in {"COLLECTION", "STRING"}

====
